---- MODULE Spec2Model ----
(***************************************************************************)
(* Model of heat's distributed first/n-th discrete difference              *)
(* (heat/core/arithmetics.py, diff) and of the one-dimensional convolution *)
(* (heat/core/signal.py, convolve).                                        *)
(*                                                                         *)
(* Arrays are one-dimensional.  Workers are the ranks 0 .. P-1 of one      *)
(* communicator; every worker runs the same code (SPMD) and owns one local *)
(* buffer per array.  Elements are integers; diff and convolve are         *)
(* (bi)linear, so a few generic inputs show every misplaced element.       *)
(***************************************************************************)
EXTENDS Integers, Sequences, FiniteSets, TLC

\* ------------------------------------------------------------- bounds
MaxP == 3
MaxG == 5
MaxN == 2
MaxSig == 4
MaxFil == 3
MaxCalls == 2
MaxR == 3

\* element values of the input arrays
Vals == {0, 1}

\* the split attribute of an array that is not split (a.split is None)
NoSplit == -1

VARIABLES
    P,        \* comm.size
    isDND,    \* TRUE when the argument a is a DNDarray
    split,    \* a.split: 0 or NoSplit
    sync,     \* TRUE: a send completes only once the matching receive is posted
    orig,     \* the caller's array a as first passed in: rank -> local buffer
    call,     \* which call of the driver is running (1, 2 or 3; 0: cumsum)
    order,    \* the argument n of the running call
    arg,      \* the argument a of the running call: rank -> local buffer
    ret,      \* the local variable ret: rank -> local buffer
    retIsArg, \* rank -> TRUE when ret names the very object a
    pc,       \* rank -> position in diff
    pass,     \* rank -> iterations of the work loop completed
    chan,     \* rank r -> messages sent by r to r-1 and not yet received
    sent,     \* rank -> number of Isend issued in the running call
    posted,   \* rank -> number of Irecv posted in the running call
    recvd,    \* rank -> number of messages received in the running call
    err,      \* rank -> exception raised ("none" when none)
    out,      \* rank -> local buffer of the returned array
    outIsArg, \* rank -> TRUE when the returned object is a itself
    saved     \* call -> returned array (rank -> buffer) of the finished calls

\* the state of a call of diff
dvars == <<P, isDND, split, sync, orig, call, order, arg, ret, retIsArg, pc, pass,
           chan, sent, posted, recvd, err, out, outIsArg, saved>>

VARIABLES
    cP,       \* comm.size of the call of convolve
    mode,     \* the argument mode
    csync,    \* TRUE: a send completes only once the matching receive is posted
    aSplit,   \* a.split: 0 or NoSplit
    vSplit,   \* v.split: 0 or NoSplit
    sig,      \* the signal a: rank -> local buffer
    fil,      \* the filter v: rank -> local buffer
    cpc,      \* rank -> position in convolve
    cerr,     \* rank -> exception raised ("none" when none)
    signal,   \* rank -> the local variable signal (halos applied)
    fsent,    \* rank -> TRUE once its filter chunk is sent to every rank
    rows,     \* rank -> the local variable t_signal: origin rank -> buffer
    cres,     \* rank -> local buffer of the returned array
    hposted   \* rank -> TRUE once the rank has issued its halo sends and receives

\* the state of a call of convolve
cvars == <<cP, mode, csync, aSplit, vSplit, sig, fil, cpc, cerr, signal,
           fsent, rows, cres, hposted>>

VARIABLES
    bP,       \* comm.size of the array balance_() is called on
    bbuf,     \* rank -> local buffer of that array
    bflag,    \* the array's balanced flag
    bcalls,   \* invocations of balance_() completed
    binit,    \* the local buffers before the first invocation
    bprev     \* the local buffers before the latest invocation

\* the state of the calls of balance_()
bvars == <<bP, bbuf, bflag, bcalls, binit, bprev>>

VARIABLES
    rP,       \* comm.size of the call of sum or prod
    rop,      \* "sum" or "prod"
    rsplit,   \* x.split: 0 or NoSplit
    rbuf,     \* the array x: rank -> local buffer
    rpc,      \* rank -> position in the reduction
    rpart,    \* rank -> partial result of the local kernel
    rres      \* rank -> returned value

\* the state of a call of sum or prod
rvars == <<rP, rop, rsplit, rbuf, rpc, rpart, rres>>

VARIABLES
    tP,       \* comm.size of the call of a bitwise operation
    top,      \* the operation called
    tdt,      \* the element types of its operands, in argument order
    tpc,      \* rank -> position in the operation
    terr      \* rank -> exception raised ("none" when none)

\* the state of a call of a bitwise operation
tvars == <<tP, top, tdt, tpc, terr>>

vars == <<dvars, cvars, bvars, rvars, tvars>>

Ranks == 0 .. (P - 1)

\* ------------------------------------------------------ sequence helpers
RECURSIVE SumTo(_, _)
\* f[0] + ... + f[k-1]
SumTo(f, k) == IF k <= 0 THEN 0 ELSE f[k - 1] + SumTo(f, k - 1)

RECURSIVE Gather(_, _)
\* the local buffers of ranks 0 .. k-1 concatenated in rank order
Gather(bufs, k) == IF k <= 0 THEN << >> ELSE Gather(bufs, k - 1) \o bufs[k - 1]

Max(x, y) == IF x >= y THEN x ELSE y
Min(x, y) == IF x <= y THEN x ELSE y

\* s[lo .. hi] (1-based, inclusive), empty when hi < lo
Slice(s, lo, hi) == IF hi < lo THEN << >> ELSE SubSeq(s, lo, hi)

\* a.is_distributed(): split is not None and the communicator has > 1 ranks
IsDistributed == split # NoSplit /\ P > 1

\* ------------------------------------------------------------ diff: data
\* one pass of the non-distributed loop: ret[1:] - ret[:-1]
DiffPass(buf) == [i \in 1 .. Max(Len(buf) - 1, 0) |-> buf[i + 1] - buf[i]]

RECURSIVE DiffLocalN(_, _)
\* the non-distributed loop: for _ in range(n): ret = ret[1:] - ret[:-1]
DiffLocalN(buf, k) == IF k <= 0 THEN buf ELSE DiffLocalN(DiffPass(buf), k - 1)

\* dif = ret.lloc[1:] - ret.lloc[:-1]; ret.lloc[:len(dif)] = dif
\* (the last local element keeps its old value)
LocalDiff(buf) ==
    [i \in 1 .. Len(buf) |-> IF i < Len(buf) THEN buf[i + 1] - buf[i] ELSE buf[i]]

\* ret.lloc[-1:] = recv_data - ret.lloc[-1:]
Reconcile(buf, recv) ==
    [i \in 1 .. Len(buf) |-> IF i = Len(buf) THEN recv - buf[i] ELSE buf[i]]

\* mutant: the slice drops one element whatever n is
TrimStopOne(g, k) == Max(g - 1, 0)

\* the stop index of slice(None, -1 * n) on an axis of extent g
TrimStop(g, k) == Max(g - k, 0)

\* rank r's part of ret[:-n]: its elements whose global index is below the stop
TrimLocal(bufs, r, k) ==
    LET off  == SumTo([q \in Ranks |-> Len(bufs[q])], r)
        g    == SumTo([q \in Ranks |-> Len(bufs[q])], P)
        keep == Min(Len(bufs[r]), Max(TrimStop(g, k) - off, 0))
    IN  Slice(bufs[r], 1, keep)

\* mutant: the remainder goes to the highest ranks
CanonicalShareHigh(g, p, r) == (g \div p) + (IF r >= p - (g % p) THEN 1 ELSE 0)

\* the canonical even split: g div p, one more on the g mod p lowest ranks
CanonicalShare(g, p, r) == (g \div p) + (IF r < g % p THEN 1 ELSE 0)

\* the canonical chunks of the global array all over p ranks
CanonicalChunks(all, p) ==
    LET g == Len(all)
        off(r) == SumTo([q \in 0 .. (p - 1) |-> CanonicalShare(g, p, q)], r)
    IN  [r \in 0 .. (p - 1) |->
            Slice(all, off(r) + 1, off(r) + CanonicalShare(g, p, r))]

\* balance_(): every rank ends with its canonical share, global order kept
Balanced(bufs) == CanonicalChunks(Gather(bufs, P), P)

\* ---------------------------------------------------------- diff: control
\* mutant: ret = a, no copy is taken
CopyIsArgAlias == TRUE

\* a.copy(): ret is a new object holding a's data
CopyIsArg == FALSE

\* the object ret names is written: a itself is written only when ret is a
WriteRet(r, buf) ==
    /\ ret' = [ret EXCEPT ![r] = buf]
    /\ arg' = IF retIsArg[r] THEN [arg EXCEPT ![r] = buf] ELSE arg

\* mutant: the work loop is left after its first iteration
LoopEndAfterOne(r) ==
    /\ pass' = [pass EXCEPT ![r] = @ + 1]
    /\ pc' = [pc EXCEPT ![r] = "trim"]

\* the end of one iteration of the work loop
LoopEnd(r) ==
    /\ pass' = [pass EXCEPT ![r] = @ + 1]
    /\ pc' = [pc EXCEPT ![r] = IF pass[r] + 1 < order THEN "send" ELSE "trim"]

\* mutant: n == 0 returns a copy of a
ReturnCopyOfInput(r) ==
    /\ pc[r] = "entry"
    /\ order = 0
    /\ pc' = [pc EXCEPT ![r] = "done"]
    /\ out' = [out EXCEPT ![r] = arg[r]]
    /\ outIsArg' = [outIsArg EXCEPT ![r] = FALSE]
    /\ UNCHANGED <<P, isDND, split, sync, orig, call, order, arg, ret, retIsArg, pass,
                   chan, sent, posted, recvd, err, saved>>

\* if n == 0: return a
ReturnInput(r) ==
    /\ pc[r] = "entry"
    /\ order = 0
    /\ pc' = [pc EXCEPT ![r] = "done"]
    /\ out' = [out EXCEPT ![r] = arg[r]]
    /\ outIsArg' = [outIsArg EXCEPT ![r] = TRUE]
    /\ UNCHANGED <<P, isDND, split, sync, orig, call, order, arg, ret, retIsArg, pass,
                   chan, sent, posted, recvd, err, saved>>

\* mutant: the guard reads n <= 0, a negative order returns a
ReturnInputOnNegative(r) ==
    /\ pc[r] = "entry"
    /\ order < 0
    /\ pc' = [pc EXCEPT ![r] = "done"]
    /\ out' = [out EXCEPT ![r] = arg[r]]
    /\ outIsArg' = [outIsArg EXCEPT ![r] = TRUE]
    /\ UNCHANGED <<P, isDND, split, sync, orig, call, order, arg, ret, retIsArg, pass,
                   chan, sent, posted, recvd, err, saved>>

\* if n < 0: raise ValueError
RaiseNegative(r) ==
    /\ pc[r] = "entry"
    /\ order < 0
    /\ pc' = [pc EXCEPT ![r] = "raised"]
    /\ err' = [err EXCEPT ![r] = "ValueError"]
    /\ UNCHANGED <<P, isDND, split, sync, orig, call, order, arg, ret, retIsArg, pass,
                   chan, sent, posted, recvd, out, outIsArg, saved>>

\* mutant: the type of a is checked before the order is looked at
RaiseNotDNDarrayFirst(r) ==
    /\ pc[r] = "entry"
    /\ ~isDND
    /\ pc' = [pc EXCEPT ![r] = "raised"]
    /\ err' = [err EXCEPT ![r] = "TypeError"]
    /\ UNCHANGED <<P, isDND, split, sync, orig, call, order, arg, ret, retIsArg,
                   pass, chan, sent, posted, recvd, out, outIsArg, saved>>

\* if not isinstance(a, DNDarray): raise TypeError, after the two tests of n
RaiseNotDNDarray(r) ==
    /\ pc[r] = "entry"
    /\ order > 0
    /\ ~isDND
    /\ pc' = [pc EXCEPT ![r] = "raised"]
    /\ err' = [err EXCEPT ![r] = "TypeError"]
    /\ UNCHANGED <<P, isDND, split, sync, orig, call, order, arg, ret, retIsArg,
                   pass, chan, sent, posted, recvd, out, outIsArg, saved>>

\* if not a.is_distributed(): copy, n local passes, return
DiffNotDistributed(r) ==
    /\ pc[r] = "entry"
    /\ order > 0
    /\ isDND
    /\ ~IsDistributed
    /\ ret' = [ret EXCEPT ![r] = DiffLocalN(arg[r], order)]
    /\ retIsArg' = [retIsArg EXCEPT ![r] = FALSE]
    /\ out' = [out EXCEPT ![r] = DiffLocalN(arg[r], order)]
    /\ outIsArg' = [outIsArg EXCEPT ![r] = FALSE]
    /\ pass' = [pass EXCEPT ![r] = order]
    /\ pc' = [pc EXCEPT ![r] = "done"]
    /\ UNCHANGED <<P, isDND, split, sync, orig, call, order, arg, chan, sent, posted,
                   recvd, err, saved>>

\* ret = a.copy() on the distributed path
CopyInput(r) ==
    /\ pc[r] = "entry"
    /\ order > 0
    /\ isDND
    /\ IsDistributed
    /\ ret' = [ret EXCEPT ![r] = arg[r]]
    /\ retIsArg' = [retIsArg EXCEPT ![r] = CopyIsArg]
    /\ pc' = [pc EXCEPT ![r] = "send"]
    /\ UNCHANGED <<P, isDND, split, sync, orig, call, order, arg, pass, chan, sent,
                   posted, recvd, err, out, outIsArg, saved>>

\* ret.lloc[0] on an empty local buffer raises IndexError
SendRaises(r) ==
    /\ pc[r] = "send"
    /\ r > 0
    /\ Len(ret[r]) = 0
    /\ pc' = [pc EXCEPT ![r] = "raised"]
    /\ err' = [err EXCEPT ![r] = "IndexError"]
    /\ UNCHANGED <<P, isDND, split, sync, orig, call, order, arg, ret, retIsArg, pass,
                   chan, sent, posted, recvd, out, outIsArg, saved>>

\* mutant: the first element is read for the send after the local diff has
\* overwritten it
SendAfterLocalDiff(r) ==
    /\ pc[r] = "send"
    /\ r > 0 => Len(ret[r]) > 0
    /\ IF r > 0
       THEN /\ chan' = [chan EXCEPT ![r] =
                           Append(@, [tag |-> r, val |-> LocalDiff(ret[r])[1],
                                      pass |-> pass[r]])]
            /\ sent' = [sent EXCEPT ![r] = @ + 1]
       ELSE UNCHANGED <<chan, sent>>
    /\ WriteRet(r, LocalDiff(ret[r]))
    /\ pc' = [pc EXCEPT ![r] = "sndwait"]
    /\ UNCHANGED <<P, isDND, split, sync, orig, call, order, retIsArg, pass, posted,
                   recvd, err, out, outIsArg, saved>>

\* rank > 0: Isend(first element, dest=rank-1, tag=rank); then the local diff
SendAndLocalDiff(r) ==
    /\ pc[r] = "send"
    /\ r > 0 => Len(ret[r]) > 0
    /\ IF r > 0
       THEN /\ chan' = [chan EXCEPT ![r] =
                           Append(@, [tag |-> r, val |-> ret[r][1], pass |-> pass[r]])]
            /\ sent' = [sent EXCEPT ![r] = @ + 1]
       ELSE UNCHANGED <<chan, sent>>
    /\ WriteRet(r, LocalDiff(ret[r]))
    /\ pc' = [pc EXCEPT ![r] = "sndwait"]
    /\ UNCHANGED <<P, isDND, split, sync, orig, call, order, retIsArg, pass, posted,
                   recvd, err, out, outIsArg, saved>>

\* the Isend of rank r has completed: at once when sends are buffered, and only
\* after rank r-1 has posted the matching Irecv when they are synchronous
SendComplete(r) == sync => posted[r - 1] >= sent[r]

\* if rank > 0: snd.wait()
SendWaited(r) == r > 0 => SendComplete(r)

\* after snd.wait(), rank < size-1: ret.lloc[cr_slice] with cr_slice[axis] = 1
\* raises IndexError when the local extent is below 2
RecvShapeRaises(r) ==
    /\ pc[r] = "sndwait"
    /\ SendWaited(r)
    /\ r < P - 1
    /\ Len(ret[r]) < 2
    /\ pc' = [pc EXCEPT ![r] = "raised"]
    /\ err' = [err EXCEPT ![r] = "IndexError"]
    /\ UNCHANGED <<P, isDND, split, sync, orig, call, order, arg, ret, retIsArg, pass,
                   chan, sent, posted, recvd, out, outIsArg, saved>>

\* after snd.wait(), rank < size-1:
\* rec = Irecv(recv_data, source=rank+1, tag=rank+1)
PostRecv(r) ==
    /\ pc[r] = "sndwait"
    /\ SendWaited(r)
    /\ r < P - 1
    /\ Len(ret[r]) >= 2
    /\ posted' = [posted EXCEPT ![r] = @ + 1]
    /\ pc' = [pc EXCEPT ![r] = "recwait"]
    /\ UNCHANGED <<P, isDND, split, sync, orig, call, order, arg, ret, retIsArg, pass,
                   chan, sent, recvd, err, out, outIsArg, saved>>

\* after snd.wait(), the last rank receives nothing and ends the iteration
SkipRecv(r) ==
    /\ pc[r] = "sndwait"
    /\ SendWaited(r)
    /\ r = P - 1
    /\ LoopEnd(r)
    /\ UNCHANGED <<P, isDND, split, sync, orig, call, order, arg, ret, retIsArg, chan,
                   sent, posted, recvd, err, out, outIsArg, saved>>

\* rec.wait(); ret.lloc[-1:] = recv_data - ret.lloc[-1:]
RecWait(r) ==
    /\ pc[r] = "recwait"
    /\ Len(chan[r + 1]) > 0
    /\ Head(chan[r + 1]).tag = r + 1
    /\ chan' = [chan EXCEPT ![r + 1] = Tail(@)]
    /\ recvd' = [recvd EXCEPT ![r] = @ + 1]
    /\ WriteRet(r, Reconcile(ret[r], Head(chan[r + 1]).val))
    /\ LoopEnd(r)
    /\ UNCHANGED <<P, isDND, split, sync, orig, call, order, retIsArg, sent, posted,
                   err, out, outIsArg, saved>>

\* ret = ret[:-n]; ret.balance_(); return ret.  Both are collective: they
\* complete once every rank has left the work loop.
TrimBalanceReturn ==
    /\ \A q \in Ranks : pc[q] = "trim"
    /\ LET trimmed == [q \in Ranks |-> TrimLocal(ret, q, order)]
       IN  /\ ret' = Balanced(trimmed)
           /\ out' = Balanced(trimmed)
    /\ retIsArg' = [q \in Ranks |-> FALSE]
    /\ outIsArg' = [q \in Ranks |-> FALSE]
    /\ pc' = [q \in Ranks |-> "done"]
    /\ UNCHANGED <<P, isDND, split, sync, orig, call, order, arg, pass, chan, sent,
                   posted, recvd, err, saved>>

\* ------------------------------------------------------------ diff: driver
AllReturned == \A q \in Ranks : pc[q] = "done"

\* the state of every rank at the entry of a call of diff(x, k)
EnterCall(x, k) ==
    /\ arg' = x
    /\ order' = k
    /\ ret' = [q \in Ranks |-> << >>]
    /\ retIsArg' = [q \in Ranks |-> FALSE]
    /\ pc' = [q \in Ranks |-> "entry"]
    /\ pass' = [q \in Ranks |-> 0]
    /\ chan' = [q \in Ranks |-> << >>]
    /\ sent' = [q \in Ranks |-> 0]
    /\ posted' = [q \in Ranks |-> 0]
    /\ recvd' = [q \in Ranks |-> 0]
    /\ out' = [q \in Ranks |-> << >>]
    /\ outIsArg' = [q \in Ranks |-> FALSE]

\* "n=2 is equivalent to diff(diff(a))": after diff(a, 2) has returned, the
\* caller evaluates diff(a) ...
CallDiffOnce ==
    /\ call = 1
    /\ order = 2
    /\ AllReturned
    /\ call' = 2
    /\ saved' = Append(saved, out)
    /\ EnterCall(arg, 1)
    /\ UNCHANGED <<P, isDND, split, sync, orig, err>>

\* ... and then diff of that result
CallDiffAgain ==
    /\ call = 2
    /\ AllReturned
    /\ call' = 3
    /\ saved' = Append(saved, out)
    /\ EnterCall(out, 1)
    /\ UNCHANGED <<P, isDND, split, sync, orig, err>>

\* the local buffers of a global array g split into chunks of the extents ls
Chunks(g, ls, p) ==
    [r \in 0 .. (p - 1) |->
        Slice(g, SumTo(ls, r) + 1, SumTo(ls, r) + ls[r])]

\* The input data of length len: the zero array and the arrays with a single
\* nonzero element.  diff is linear in the data and its control flow does not
\* read the data, so these inputs decide every equality between results.
Data(len) ==
    {g \in [1 .. len -> Vals] : Cardinality({i \in 1 .. len : g[i] # 0}) <= 1}

\* ------------------------------------------------------------ cumsum
\* torch.cumsum on the local buffer
LocalCumSum(buf) == [i \in 1 .. Len(buf) |-> SumTo([j \in 0 .. (i - 1) |-> buf[j + 1]], i)]

\* the last element of the local cumulative sum, the neutral element 0 for an
\* empty buffer
LocalTotal(buf) == IF Len(buf) = 0 THEN 0 ELSE buf[Len(buf)]

\* mutant: a rank is handed the total of its immediate neighbour only
RunningTotalOfNeighbour(bufs, r) == IF r = 0 THEN 0 ELSE LocalTotal(bufs[r - 1])

\* the running total handed to rank r: the totals of all lower ranks combined
\* with torch.add, starting from the neutral element 0
RunningTotal(bufs, r) == SumTo([q \in 0 .. (r - 1) |-> LocalTotal(bufs[q])], r)

\* cumsum(a, 0): the local cumulative kernel
CumLocal(r) ==
    /\ call = 0
    /\ pc[r] = "cumsum"
    /\ arg' = [arg EXCEPT ![r] = LocalCumSum(orig[r])]
    /\ pc' = [pc EXCEPT ![r] = "carry"]
    /\ UNCHANGED <<P, isDND, split, sync, orig, call, order, ret, retIsArg, pass,
                   chan, sent, posted, recvd, err, out, outIsArg, saved>>

\* cumsum(a, 0): on a distributed array every rank adds the running total of
\* the lower ranks; cumsum returns and the caller evaluates diff of the result
CumCarryReturn ==
    /\ call = 0
    /\ \A q \in Ranks : pc[q] = "carry"
    /\ call' = 1
    /\ EnterCall(IF IsDistributed
                 THEN [q \in Ranks |->
                          [i \in 1 .. Len(arg[q]) |->
                              arg[q][i] + RunningTotal(arg, q)]]
                 ELSE arg,
                 1)
    /\ UNCHANGED <<P, isDND, split, sync, orig, err, saved>>

\* ------------------------------------------------------- convolve: data
CRanks == 0 .. (cP - 1)

\* a.is_distributed() and v.is_distributed()
ADistributed == aSplit # NoSplit /\ cP > 1
VDistributed == vSplit # NoSplit /\ cP > 1

\* the global signal and the global filter
GlobalA == IF aSplit = NoSplit THEN sig[0] ELSE Gather(sig, cP)
GlobalV == IF vSplit = NoSplit THEN fil[0] ELSE Gather(fil, cP)

\* a.shape[0] and v.shape[0]
SigLen == Len(GlobalA)
FilLen == Len(GlobalV)

Zeros(k) == [i \in 1 .. Max(k, 0) |-> 0]

Reverse(s) == [i \in 1 .. Len(s) |-> s[Len(s) + 1 - i]]

RECURSIVE Dot(_, _, _, _)
\* w[1]*s[i] + ... + w[k]*s[i+k-1]
Dot(s, w, i, k) ==
    IF k = 0 THEN 0 ELSE Dot(s, w, i, k - 1) + w[k] * s[i + k - 1]

\* fc.conv1d(signal, weight): the sliding correlation, one output per full overlap
Conv1d(s, w) == [i \in 1 .. Max(Len(s) - Len(w) + 1, 0) |-> Dot(s, w, i, Len(w))]

\* halo_size = int(v.lshape_map[0][0] / 2)
HaloSize == Len(fil[0]) \div 2

\* pad_size of the mode
PadSize ==
    CASE mode = "full"  -> FilLen - 1
      [] mode = "same"  -> HaloSize
      [] mode = "valid" -> 0
      [] OTHER          -> 0

\* gshape of the mode
GShape ==
    CASE mode = "full"  -> FilLen + SigLen - 1
      [] mode = "same"  -> SigLen
      [] mode = "valid" -> SigLen - FilLen + 1
      [] OTHER          -> 0

\* pad(a, pad_size, "constant", 0): the zeros go before the first element and
\* after the last one of the global array
Padded(r) ==
    (IF ~ADistributed \/ r = 0 THEN Zeros(PadSize) ELSE << >>)
    \o sig[r]
    \o (IF ~ADistributed \/ r = cP - 1 THEN Zeros(PadSize) ELSE << >>)

\* mutant: only the mode "full" is refused for a distributed filter
PolicyErrorFullOnly == VDistributed /\ mode = "full"

\* if v.is_distributed() and mode == "full" or mode == "same"
PolicyError == (VDistributed /\ mode = "full") \/ mode = "same"

\* mutant: .all() in place of .any()
ChunkErrorAll == \A q \in CRanks : Len(fil[q]) > Len(Padded(q))

\* (v.lshape_map[:, 0] > a.lshape_map[:, 0]).any() on the padded signal
ChunkError == \E q \in CRanks : Len(fil[q]) > Len(Padded(q))

\* mutant: the checks without the size check
ConvErrorNoSize ==
    IF PolicyError THEN "TypeError"
    ELSE IF mode = "same" /\ FilLen % 2 = 0 THEN "ValueError:even"
    ELSE IF mode \notin {"full", "same", "valid"} THEN "ValueError:mode"
    ELSE IF ADistributed /\ ChunkError THEN "ValueError:chunk"
    ELSE "none"

\* the exception the checks of convolve raise, in the order of the code
ConvError ==
    IF PolicyError THEN "TypeError"
    ELSE IF SigLen <= FilLen THEN "ValueError:size"
    ELSE IF mode = "same" /\ FilLen % 2 = 0 THEN "ValueError:even"
    ELSE IF mode \notin {"full", "same", "valid"} THEN "ValueError:mode"
    ELSE IF ADistributed /\ ChunkError THEN "ValueError:chunk"
    ELSE "none"

\* get_halo refuses a halo wider than a local chunk
HaloError == HaloSize > 0 /\ \E q \in CRanks : Len(Padded(q)) < HaloSize

\* the previous halo of rank r: the last k elements of rank r-1
HaloPrev(r, k) ==
    IF r > 0
    THEN Slice(Padded(r - 1), Max(Len(Padded(r - 1)) - k + 1, 1), Len(Padded(r - 1)))
    ELSE << >>

\* the next halo of rank r: the first k elements of rank r+1
HaloNext(r, k) ==
    IF r < cP - 1 THEN Slice(Padded(r + 1), 1, Min(k, Len(Padded(r + 1)))) ELSE << >>

\* mutant: halos one element wider than requested
WithWiderHalos(r) ==
    HaloPrev(r, HaloSize + 1) \o Padded(r) \o HaloNext(r, HaloSize + 1)

\* array_with_halos: previous halo ++ local buffer ++ next halo
WithHalos(r) == HaloPrev(r, HaloSize) \o Padded(r) \o HaloNext(r, HaloSize)

\* the local buffer of flip(v, [0]): the local flip of a replicated filter;
\* the chunks of the reversed global filter, balanced, of a split one
Flipped(r) ==
    IF VDistributed THEN CanonicalChunks(Reverse(GlobalV), cP)[r] ELSE Reverse(fil[r])

\* the weight of rank r: its flipped chunk, zeros in front up to the extent of
\* rank 0's chunk
Weight(r) == Zeros(Len(Flipped(0)) - Len(Flipped(r))) \o Flipped(r)

\* the first output is cut on every rank but 0 when the kernel extent is even
DropFirst(r, buf, extent) ==
    IF r # 0 /\ extent % 2 = 0 THEN Slice(buf, 2, Len(buf)) ELSE buf

\* the branch "v.comm.is_distributed() and a.split is not None and
\* v.split is not None"
FilterPath == cP > 1 /\ aSplit # NoSplit /\ vSplit # NoSplit

\* start_idx of row: the extents of the flipped chunks 1 .. row
StartIdx(row) == SumTo([q \in CRanks |-> Len(Flipped(q))], row + 1) - Len(Flipped(0))

\* global_signal_filtered[row][start_idx : start_idx + gshape]
RowSlice(row) ==
    LET g == Gather([q \in CRanks |-> rows[q][row]], cP)
    IN  Slice(g, StartIdx(row) + 1, Min(StartIdx(row) + GShape, Len(g)))

RECURSIVE SumRows(_, _)
\* element i of the sum of the slices of rows 0 .. k-1
SumRows(i, k) == IF k = 0 THEN 0 ELSE SumRows(i, k - 1) + RowSlice(k - 1)[i]

\* ---------------------------------------------------- convolve: control
\* mutant: the chunk check decided from the caller's own chunk only
ValidateOwnChunk(r) ==
    /\ cpc[r] = "check"
    /\ IF ConvError \notin {"none", "ValueError:chunk"}
       THEN /\ cpc' = [cpc EXCEPT ![r] = "raised"]
            /\ cerr' = [cerr EXCEPT ![r] = ConvError]
            /\ UNCHANGED signal
       ELSE IF ADistributed /\ Len(fil[r]) > Len(Padded(r))
       THEN /\ cpc' = [cpc EXCEPT ![r] = "raised"]
            /\ cerr' = [cerr EXCEPT ![r] = "ValueError:chunk"]
            /\ UNCHANGED signal
       ELSE /\ cpc' = [cpc EXCEPT ![r] = IF ADistributed THEN "halo" ELSE "conv"]
            /\ signal' = [signal EXCEPT ![r] = Padded(r)]
            /\ UNCHANGED cerr
    /\ UNCHANGED <<hposted, cP, mode, csync, aSplit, vSplit, sig, fil, fsent, rows, cres>>

\* the checks up to the chunk check, and the padding
Validate(r) ==
    /\ cpc[r] = "check"
    /\ IF ConvError # "none"
       THEN /\ cpc' = [cpc EXCEPT ![r] = "raised"]
            /\ cerr' = [cerr EXCEPT ![r] = ConvError]
            /\ UNCHANGED signal
       ELSE /\ cpc' = [cpc EXCEPT ![r] = IF ADistributed THEN "halo" ELSE "conv"]
            /\ signal' = [signal EXCEPT ![r] = Padded(r)]
            /\ UNCHANGED cerr
    /\ UNCHANGED <<hposted, cP, mode, csync, aSplit, vSplit, sig, fil, fsent, rows, cres>>

\* the neighbours of rank r
Neighbours(r) == {q \in CRanks : q = r - 1 \/ q = r + 1}

\* a.get_halo(halo_size), up to its wait: the width is checked, then the
\* boundary elements are sent to, and the receives posted for, both neighbours,
\* none of them blocking
GetHalo(r) ==
    /\ cpc[r] = "halo"
    /\ IF HaloError
       THEN /\ cpc' = [cpc EXCEPT ![r] = "raised"]
            /\ cerr' = [cerr EXCEPT ![r] = "ValueError:halo"]
            /\ UNCHANGED hposted
       ELSE /\ cpc' = [cpc EXCEPT ![r] = "halowait"]
            /\ hposted' = [hposted EXCEPT ![r] = TRUE]
            /\ UNCHANGED cerr
    /\ UNCHANGED <<cP, mode, csync, aSplit, vSplit, sig, fil, signal, fsent, rows, cres>>

\* the wait on the sends and receives of get_halo: a receive completes once
\* the neighbour has sent, a send at the latest once the neighbour has posted
\* its receive; then signal = a.array_with_halos
HaloWait(r) ==
    /\ cpc[r] = "halowait"
    /\ \A q \in Neighbours(r) : hposted[q]
    /\ cpc' = [cpc EXCEPT ![r] = "conv"]
    /\ signal' = [signal EXCEPT ![r] = WithHalos(r)]
    /\ UNCHANGED <<hposted, cP, mode, csync, aSplit, vSplit, sig, fil, cerr, fsent, rows, cres>>

\* the else branch: conv1d with the local weight, the cut of the duplicate
\* and the returned array
ConvLocal(r) ==
    /\ cpc[r] = "conv"
    /\ ~FilterPath
    /\ IF Len(signal[r]) < Len(Weight(r))
       THEN /\ cpc' = [cpc EXCEPT ![r] = "raised"]
            /\ cerr' = [cerr EXCEPT ![r] = "RuntimeError"]
            /\ UNCHANGED cres
       ELSE /\ cpc' = [cpc EXCEPT ![r] = "done"]
            /\ cres' = [cres EXCEPT ![r] =
                           DropFirst(r, Conv1d(signal[r], Weight(r)), FilLen)]
            /\ UNCHANGED cerr
    /\ UNCHANGED <<hposted, cP, mode, csync, aSplit, vSplit, sig, fil, signal, fsent, rows>>

\* t_signal_shape: the extent of a row of t_signal on rank r
TSignalShape(r) ==
    IF r # 0 /\ Len(Flipped(0)) % 2 = 0
    THEN Len(signal[r]) - Len(Weight(r))
    ELSE Len(signal[r]) - Len(Weight(r)) + 1

\* t_signal = torch.zeros(...), which refuses a negative extent; then
\* for r in range(size): send = Isend(t_v, r); send.Wait().  The first send
\* of rank 0 goes to rank 0 itself, which posts no receive before its sends
\* are done: the loop ends only when sends are buffered.
FilterSendAll(r) ==
    /\ cpc[r] = "conv"
    /\ FilterPath
    /\ IF TSignalShape(r) < 0
       THEN /\ cpc' = [cpc EXCEPT ![r] = "raised"]
            /\ cerr' = [cerr EXCEPT ![r] = "RuntimeError"]
            /\ UNCHANGED fsent
       ELSE /\ ~csync
            /\ fsent' = [fsent EXCEPT ![r] = TRUE]
            /\ cpc' = [cpc EXCEPT ![r] = "recv"]
            /\ UNCHANGED cerr
    /\ UNCHANGED <<hposted, cP, mode, csync, aSplit, vSplit, sig, fil, signal, rows, cres>>

\* for r in range(size): Irecv(t_v, r).Wait(); conv1d; cut; t_signal[r] = ...
ConvRows(r) ==
    /\ cpc[r] = "recv"
    /\ \A q \in CRanks : fsent[q]
    /\ IF Len(signal[r]) < Len(Weight(0))
       THEN /\ cpc' = [cpc EXCEPT ![r] = "raised"]
            /\ cerr' = [cerr EXCEPT ![r] = "RuntimeError"]
            /\ UNCHANGED rows
       ELSE /\ cpc' = [cpc EXCEPT ![r] = "assemble"]
            /\ rows' = [rows EXCEPT ![r] =
                  [q \in CRanks |->
                      DropFirst(r, Conv1d(signal[r], Weight(q)), Len(Flipped(0)))]]
            /\ UNCHANGED cerr
    /\ UNCHANGED <<hposted, cP, mode, csync, aSplit, vSplit, sig, fil, signal, fsent, cres>>

\* the sum of the row slices, balance_() and the return; collective
Assemble ==
    /\ \A q \in CRanks : cpc[q] = "assemble"
    /\ IF \E row \in CRanks : Len(RowSlice(row)) # Len(RowSlice(0))
       THEN /\ cpc' = [q \in CRanks |-> "raised"]
            /\ cerr' = [q \in CRanks |-> "ValueError:shape"]
            /\ UNCHANGED cres
       ELSE /\ cpc' = [q \in CRanks |-> "done"]
            /\ cres' = CanonicalChunks(
                           [i \in 1 .. Len(RowSlice(0)) |-> SumRows(i, cP)], cP)
            /\ UNCHANGED cerr
    /\ UNCHANGED <<hposted, cP, mode, csync, aSplit, vSplit, sig, fil, signal, fsent, rows>>

\* ------------------------------------------------------------- balance_
BRanks == 0 .. (bP - 1)

\* the partition sizes are those of the canonical even split
IsBalanced(bufs, p) ==
    \A r \in 0 .. (p - 1) :
        Len(bufs[r]) = CanonicalShare(Len(Gather(bufs, p)), p, r)

\* balance_() on an array whose balanced flag is set: nothing to do
BalanceSkip ==
    /\ bcalls < MaxCalls
    /\ bflag
    /\ bcalls' = bcalls + 1
    /\ bprev' = bbuf
    /\ UNCHANGED <<bP, bbuf, bflag, binit>>

\* balance_() otherwise: the elements are redistributed, global order kept,
\* so that every rank holds its canonical share; the flag is set
BalanceRedistribute ==
    /\ bcalls < MaxCalls
    /\ ~bflag
    /\ bbuf' = CanonicalChunks(Gather(bbuf, bP), bP)
    /\ bflag' = TRUE
    /\ bcalls' = bcalls + 1
    /\ bprev' = bbuf
    /\ UNCHANGED <<bP, binit>>

\* no call of balance_() is modelled
BalanceIdle ==
    /\ bP = 1 /\ bflag = TRUE /\ bcalls = MaxCalls
    /\ bbuf = [q \in {0} |-> << >>]
    /\ binit = [q \in {0} |-> << >>] /\ bprev = [q \in {0} |-> << >>]

\* ------------------------------------------------------------ sum and prod
RRanks == 0 .. (rP - 1)

\* mutant: 0 as the neutral element of both reductions
NeutralZero(op) == 0

\* the neutral element sum and prod pass to the reduction
Neutral(op) == IF op = "sum" THEN 0 ELSE 1

\* the combination of two values: torch.sum and MPI.SUM for sum, torch.prod
\* and MPI.PROD for prod
Combine(op, x, y) == IF op = "sum" THEN x + y ELSE x * y

RECURSIVE LocalKernel(_, _)
\* the local kernel on a non-empty buffer
LocalKernel(op, buf) ==
    IF Len(buf) = 1 THEN buf[1]
    ELSE Combine(op, LocalKernel(op, Slice(buf, 1, Len(buf) - 1)), buf[Len(buf)])

\* the partial result of a rank: the neutral element for an empty partition
Partial(op, buf) == IF Len(buf) = 0 THEN Neutral(op) ELSE LocalKernel(op, buf)

RECURSIVE AllReduce(_, _, _)
\* the all-reduce of the partial results of ranks 0 .. k-1
AllReduce(op, parts, k) ==
    IF k = 1 THEN parts[0]
    ELSE Combine(op, AllReduce(op, parts, k - 1), parts[k - 1])

\* the local reduction of rank r
ReduceLocal(r) ==
    /\ rpc[r] = "entry"
    /\ rpart' = [rpart EXCEPT ![r] = Partial(rop, rbuf[r])]
    /\ rpc' = [rpc EXCEPT ![r] = "local"]
    /\ UNCHANGED <<rP, rop, rsplit, rbuf, rres>>

\* the array is not distributed along the reduced axis: the partial result
\* is the result
ReduceReturnLocal(r) ==
    /\ rpc[r] = "local"
    /\ ~(rP > 1 /\ rsplit # NoSplit)
    /\ rres' = [rres EXCEPT ![r] = rpart[r]]
    /\ rpc' = [rpc EXCEPT ![r] = "done"]
    /\ UNCHANGED <<rP, rop, rsplit, rbuf, rpart>>

\* the reduced axis is the split axis: the partial results are folded by an
\* all-reduce, a collective every rank takes part in
ReduceAllReduce ==
    /\ rP > 1 /\ rsplit # NoSplit
    /\ \A q \in RRanks : rpc[q] = "local"
    /\ rres' = [q \in RRanks |-> AllReduce(rop, rpart, rP)]
    /\ rpc' = [q \in RRanks |-> "done"]
    /\ UNCHANGED <<rP, rop, rsplit, rbuf, rpart>>

\* no call of sum or prod is running
ReduceIdle ==
    /\ rP = 1 /\ rop = "sum" /\ rsplit = NoSplit
    /\ rbuf = [q \in {0} |-> << >>] /\ rpc = [q \in {0} |-> "done"]
    /\ rpart = [q \in {0} |-> 0] /\ rres = [q \in {0} |-> 0]

\* ----------------------------------------------------- bitwise operations
TRanks == 0 .. (tP - 1)

\* the operations with a check of the element types, and their operand counts
BitwiseOps ==
    {"bitwise_and", "bitwise_or", "bitwise_xor", "invert", "left_shift",
     "right_shift"}

Arity(op) == IF op = "invert" THEN 1 ELSE 2

\* the kinds of element types: Boolean, integer, floating
TypeKinds == {"bool", "int", "float"}

\* heat_type_is_inexact and heat_type_is_exact
IsInexact(dt) == dt = "float"

IsExact(dt) == dt = "int"

\* mutant: only the first operand's type is checked
TypeRefusedFirstOnly(op, dts) ==
    IF op = "right_shift" THEN ~IsExact(dts[1]) ELSE IsInexact(dts[1])

\* the check of the operand types: right_shift refuses every type that is not
\* exact, the others every inexact type
TypeRefused(op, dts) ==
    IF op = "right_shift"
    THEN \E i \in 1 .. Len(dts) : ~IsExact(dts[i])
    ELSE \E i \in 1 .. Len(dts) : IsInexact(dts[i])

\* raise TypeError(...)
BitwiseRaise(r) ==
    /\ tpc[r] = "entry"
    /\ TypeRefused(top, tdt)
    /\ tpc' = [tpc EXCEPT ![r] = "raised"]
    /\ terr' = [terr EXCEPT ![r] = "TypeError"]
    /\ UNCHANGED <<tP, top, tdt>>

\* return _operations.__binary_op(...) or __local_op(...): the engine is
\* entered
BitwiseEnterEngine(r) ==
    /\ tpc[r] = "entry"
    /\ ~TypeRefused(top, tdt)
    /\ tpc' = [tpc EXCEPT ![r] = "engine"]
    /\ UNCHANGED <<tP, top, tdt, terr>>

\* no bitwise operation is running
BitwiseIdle ==
    /\ tP = 1 /\ top = "invert" /\ tdt = <<"int">>
    /\ tpc = [q \in {0} |-> "engine"] /\ terr = [q \in {0} |-> "none"]

\* ---------------------------------------------------------- specifications
\* no call of convolve is running
ConvIdle ==
    /\ cP = 1 /\ mode = "valid" /\ csync = FALSE
    /\ aSplit = NoSplit /\ vSplit = NoSplit
    /\ sig = [q \in {0} |-> << >>] /\ fil = [q \in {0} |-> << >>]
    /\ cpc = [q \in {0} |-> "done"] /\ cerr = [q \in {0} |-> "none"]
    /\ signal = [q \in {0} |-> << >>] /\ fsent = [q \in {0} |-> FALSE]
    /\ rows = [q \in {0} |-> << >>] /\ cres = [q \in {0} |-> << >>]
    /\ hposted = [q \in {0} |-> FALSE]

\* no call of diff is running
DiffIdle ==
    /\ P = 1 /\ isDND = TRUE /\ split = NoSplit /\ sync = FALSE /\ call = 1 /\ order = 0
    /\ orig = [q \in {0} |-> << >>] /\ arg = [q \in {0} |-> << >>]
    /\ ret = [q \in {0} |-> << >>] /\ retIsArg = [q \in {0} |-> FALSE]
    /\ pc = [q \in {0} |-> "done"] /\ pass = [q \in {0} |-> 0]
    /\ chan = [q \in {0} |-> << >>] /\ sent = [q \in {0} |-> 0]
    /\ posted = [q \in {0} |-> 0] /\ recvd = [q \in {0} |-> 0]
    /\ err = [q \in {0} |-> "none"] /\ out = [q \in {0} |-> << >>]
    /\ outIsArg = [q \in {0} |-> TRUE] /\ saved = << >>

\* the local buffers of the global array g: a full copy on every rank when
\* sp is NoSplit, else any chunks in rank order
Layouts(g, sp, p) ==
    IF sp = NoSplit
    THEN {[r \in 0 .. (p - 1) |-> g]}
    ELSE {Chunks(g, ls, p) : ls \in {l \in [0 .. (p - 1) -> 0 .. Len(g)] :
                                        SumTo(l, p) = Len(g)}}

\* The filter of length len: 1, 3, 9, ...
Filters(len) == {[j \in 1 .. len |-> 3 ^ (j - 1)]}

\* The signal of length len: 1, 50, 2500, ...  convolve is bilinear, its
\* control flow does not read the data, and every output adds each product
\* a[i]*v[j] at most once; the sum of the filter's elements is below 50, so an
\* output against these data shows exactly which products it holds.
Signals(len) == {[i \in 1 .. len |-> 50 ^ (i - 1)]}

\* a call convolve(a, v, mode)
ConvInit ==
    /\ DiffIdle /\ BalanceIdle /\ ReduceIdle /\ BitwiseIdle
    /\ cP \in 1 .. MaxP
    /\ mode \in {"full", "same", "valid", "other"}
    /\ aSplit \in {0, NoSplit}
    /\ vSplit \in {0, NoSplit}
    /\ \E n \in 1 .. MaxSig : \E g \in Signals(n) : sig \in Layouts(g, aSplit, cP)
    /\ \E m \in 1 .. MaxFil : \E g \in Filters(m) : fil \in Layouts(g, vSplit, cP)
    \* the send mode is read only where filter chunks are sent
    /\ csync \in (IF FilterPath /\ ConvError = "none" THEN BOOLEAN ELSE {FALSE})
    /\ cpc = [q \in CRanks |-> "check"]
    /\ cerr = [q \in CRanks |-> "none"]
    /\ signal = [q \in CRanks |-> << >>]
    /\ fsent = [q \in CRanks |-> FALSE]
    /\ rows = [q \in CRanks |-> << >>]
    /\ cres = [q \in CRanks |-> << >>]
    /\ hposted = [q \in CRanks |-> FALSE]

ConvNext ==
    \/ \E r \in CRanks : Validate(r) /\ UNCHANGED <<dvars, bvars, rvars, tvars>>
    \/ \E r \in CRanks : GetHalo(r) /\ UNCHANGED <<dvars, bvars, rvars, tvars>>
    \/ \E r \in CRanks : HaloWait(r) /\ UNCHANGED <<dvars, bvars, rvars, tvars>>
    \/ \E r \in CRanks : ConvLocal(r) /\ UNCHANGED <<dvars, bvars, rvars, tvars>>
    \/ \E r \in CRanks : FilterSendAll(r) /\ UNCHANGED <<dvars, bvars, rvars, tvars>>
    \/ \E r \in CRanks : ConvRows(r) /\ UNCHANGED <<dvars, bvars, rvars, tvars>>
    \/ Assemble /\ UNCHANGED <<dvars, bvars, rvars, tvars>>

ConvSpec == ConvInit /\ [][ConvNext]_vars

Init ==
    /\ ConvIdle /\ BalanceIdle /\ ReduceIdle /\ BitwiseIdle
    /\ P \in 1 .. MaxP
    /\ isDND \in BOOLEAN
    /\ split \in (IF isDND THEN {0, NoSplit} ELSE {NoSplit})
    /\ sync \in (IF isDND THEN BOOLEAN ELSE {FALSE})
    /\ order \in -1 .. MaxN
    /\ \E len \in 1 .. MaxG : \E g \in Data(len) :
          IF split = NoSplit
          THEN orig = [r \in 0 .. (P - 1) |-> g]
          ELSE \E ls \in [0 .. (P - 1) -> 0 .. len] :
                  /\ SumTo(ls, P) = len
                  /\ orig = Chunks(g, ls, P)
    /\ arg = orig
    /\ call = 1
    /\ ret = [q \in Ranks |-> << >>]
    /\ retIsArg = [q \in Ranks |-> FALSE]
    /\ pc = [q \in Ranks |-> "entry"]
    /\ pass = [q \in Ranks |-> 0]
    /\ chan = [q \in Ranks |-> << >>]
    /\ sent = [q \in Ranks |-> 0]
    /\ posted = [q \in Ranks |-> 0]
    /\ recvd = [q \in Ranks |-> 0]
    /\ err = [q \in Ranks |-> "none"]
    /\ out = [q \in Ranks |-> << >>]
    /\ outIsArg = [q \in Ranks |-> FALSE]
    /\ saved = << >>

Next ==
    \/ \E r \in Ranks : ReturnInput(r) /\ UNCHANGED <<cvars, bvars, rvars, tvars>>
    \/ \E r \in Ranks : RaiseNegative(r) /\ UNCHANGED <<cvars, bvars, rvars, tvars>>
    \/ \E r \in Ranks : RaiseNotDNDarray(r) /\ UNCHANGED <<cvars, bvars, rvars, tvars>>
    \/ \E r \in Ranks : DiffNotDistributed(r) /\ UNCHANGED <<cvars, bvars, rvars, tvars>>
    \/ \E r \in Ranks : CopyInput(r) /\ UNCHANGED <<cvars, bvars, rvars, tvars>>
    \/ \E r \in Ranks : SendRaises(r) /\ UNCHANGED <<cvars, bvars, rvars, tvars>>
    \/ \E r \in Ranks : SendAndLocalDiff(r) /\ UNCHANGED <<cvars, bvars, rvars, tvars>>
    \/ \E r \in Ranks : RecvShapeRaises(r) /\ UNCHANGED <<cvars, bvars, rvars, tvars>>
    \/ \E r \in Ranks : PostRecv(r) /\ UNCHANGED <<cvars, bvars, rvars, tvars>>
    \/ \E r \in Ranks : SkipRecv(r) /\ UNCHANGED <<cvars, bvars, rvars, tvars>>
    \/ \E r \in Ranks : RecWait(r) /\ UNCHANGED <<cvars, bvars, rvars, tvars>>
    \/ TrimBalanceReturn /\ UNCHANGED <<cvars, bvars, rvars, tvars>>
    \/ CallDiffOnce /\ UNCHANGED <<cvars, bvars, rvars, tvars>>
    \/ CallDiffAgain /\ UNCHANGED <<cvars, bvars, rvars, tvars>>

Spec == Init /\ [][Next]_vars

\* an array in any partition, and up to MaxCalls calls of balance_() on it
BalanceInit ==
    /\ DiffIdle /\ ConvIdle /\ ReduceIdle /\ BitwiseIdle
    /\ bP \in 1 .. MaxP
    /\ \E len \in 0 .. MaxG : bbuf \in Layouts([i \in 1 .. len |-> i], 0, bP)
    /\ bflag \in (IF IsBalanced(bbuf, bP) THEN BOOLEAN ELSE {FALSE})
    /\ bcalls = 0
    /\ binit = bbuf
    /\ bprev = bbuf

BalanceNext ==
    \/ BalanceSkip /\ UNCHANGED <<dvars, cvars, rvars, tvars>>
    \/ BalanceRedistribute /\ UNCHANGED <<dvars, cvars, rvars, tvars>>

BalanceSpec == BalanceInit /\ [][BalanceNext]_vars

\* the values of the arrays that are reduced
RVals == {0, 1, 2}

\* a call sum(x) or prod(x) of a one-dimensional array
ReduceInit ==
    /\ DiffIdle /\ ConvIdle /\ BalanceIdle /\ BitwiseIdle
    /\ rP \in 1 .. MaxP
    /\ rop \in {"sum", "prod"}
    /\ rsplit \in {0, NoSplit}
    /\ \E len \in 0 .. MaxR : \E g \in [1 .. len -> RVals] :
          rbuf \in Layouts(g, rsplit, rP)
    /\ rpc = [q \in RRanks |-> "entry"]
    /\ rpart = [q \in RRanks |-> 0]
    /\ rres = [q \in RRanks |-> 0]

ReduceNext ==
    \/ \E r \in RRanks : ReduceLocal(r) /\ UNCHANGED <<dvars, cvars, bvars, tvars>>
    \/ \E r \in RRanks : ReduceReturnLocal(r) /\ UNCHANGED <<dvars, cvars, bvars, tvars>>
    \/ ReduceAllReduce /\ UNCHANGED <<dvars, cvars, bvars, tvars>>

ReduceSpec == ReduceInit /\ [][ReduceNext]_vars

\* a call of a bitwise operation on operands of any kinds of element type
BitwiseInit ==
    /\ DiffIdle /\ ConvIdle /\ BalanceIdle /\ ReduceIdle
    /\ tP \in 1 .. MaxP
    /\ top \in BitwiseOps
    /\ tdt \in [1 .. Arity(top) -> TypeKinds]
    /\ tpc = [q \in TRanks |-> "entry"]
    /\ terr = [q \in TRanks |-> "none"]

BitwiseNext ==
    \/ \E r \in TRanks : BitwiseRaise(r) /\ UNCHANGED <<dvars, cvars, bvars, rvars>>
    \/ \E r \in TRanks : BitwiseEnterEngine(r) /\ UNCHANGED <<dvars, cvars, bvars, rvars>>

BitwiseSpec == BitwiseInit /\ [][BitwiseNext]_vars

\* cumsum(a, 0) of an array in any layout, then diff of the result
CumDiffInit ==
    /\ ConvIdle /\ BalanceIdle /\ ReduceIdle /\ BitwiseIdle
    /\ P \in 1 .. MaxP
    /\ isDND = TRUE
    /\ split \in {0, NoSplit}
    /\ sync \in BOOLEAN
    /\ order = 1
    /\ \E len \in 1 .. MaxG : \E g \in Data(len) : orig \in Layouts(g, split, P)
    /\ arg = orig
    /\ call = 0
    /\ ret = [q \in Ranks |-> << >>]
    /\ retIsArg = [q \in Ranks |-> FALSE]
    /\ pc = [q \in Ranks |-> "cumsum"]
    /\ pass = [q \in Ranks |-> 0]
    /\ chan = [q \in Ranks |-> << >>]
    /\ sent = [q \in Ranks |-> 0]
    /\ posted = [q \in Ranks |-> 0]
    /\ recvd = [q \in Ranks |-> 0]
    /\ err = [q \in Ranks |-> "none"]
    /\ out = [q \in Ranks |-> << >>]
    /\ outIsArg = [q \in Ranks |-> FALSE]
    /\ saved = << >>

CumDiffNext ==
    \/ \E r \in Ranks : CumLocal(r) /\ UNCHANGED <<cvars, bvars, rvars, tvars>>
    \/ CumCarryReturn /\ UNCHANGED <<cvars, bvars, rvars, tvars>>
    \/ \E r \in Ranks : DiffNotDistributed(r) /\ UNCHANGED <<cvars, bvars, rvars, tvars>>
    \/ \E r \in Ranks : CopyInput(r) /\ UNCHANGED <<cvars, bvars, rvars, tvars>>
    \/ \E r \in Ranks : SendRaises(r) /\ UNCHANGED <<cvars, bvars, rvars, tvars>>
    \/ \E r \in Ranks : SendAndLocalDiff(r) /\ UNCHANGED <<cvars, bvars, rvars, tvars>>
    \/ \E r \in Ranks : RecvShapeRaises(r) /\ UNCHANGED <<cvars, bvars, rvars, tvars>>
    \/ \E r \in Ranks : PostRecv(r) /\ UNCHANGED <<cvars, bvars, rvars, tvars>>
    \/ \E r \in Ranks : SkipRecv(r) /\ UNCHANGED <<cvars, bvars, rvars, tvars>>
    \/ \E r \in Ranks : RecWait(r) /\ UNCHANGED <<cvars, bvars, rvars, tvars>>
    \/ TrimBalanceReturn /\ UNCHANGED <<cvars, bvars, rvars, tvars>>

CumDiffSpec == CumDiffInit /\ [][CumDiffNext]_vars

\* ------------------------------------------------------------ diff: claims
\* the global array of per-rank buffers: one copy when replicated, the
\* concatenation in rank order when split
GlobalOf(bufs) == IF split = NoSplit THEN bufs[0] ELSE Gather(bufs, P)

RECURSIVE RefDiffAt(_, _, _)
\* element i of the k-th discrete difference, out[i] = a[i+1] - a[i] k times
RefDiffAt(g, k, i) ==
    IF k = 0 THEN g[i] ELSE RefDiffAt(g, k - 1, i + 1) - RefDiffAt(g, k - 1, i)

\* the single-process k-th discrete difference of the global array g
RefDiff(g, k) == [i \in 1 .. Max(Len(g) - k, 0) |-> RefDiffAt(g, k, i)]

NoRankRaised == \A q \in Ranks : err[q] = "none"

NoMessages ==
    /\ \A q \in Ranks : sent[q] = 0 /\ posted[q] = 0 /\ recvd[q] = 0
    /\ \A q \in Ranks : chan[q] = << >>

\* C1: for every worker count, every partition of the global array into
\* per-rank chunks along the split axis and every n >= 1, diff(a, n) returns
\* on every rank and its result gathered in rank order is the single-process
\* n-th discrete difference of the global data.
C1_DiffEqualsSingleProcess ==
    (call = 1 /\ order >= 1 /\ split = 0) =>
        /\ NoRankRaised
        /\ AllReturned => GlobalOf(out) = RefDiff(GlobalOf(orig), order)

\* C2: the distributed diff never deadlocks: for n >= 1, as long as some rank
\* has not returned, some rank (or a collective step) can still move.
C2_DiffNeverBlocks ==
    (call = 1 /\ order >= 1 /\ IsDistributed) => (AllReturned \/ ENABLED Next)

\* C3: diff(diff(a, 1), 1) returns, and returns the values and the global
\* shape of diff(a, 2), for distributed and for non-distributed a.
C3_DiffTwiceEqualsDiffTwo ==
    call = 3 =>
        /\ NoRankRaised
        /\ AllReturned => GlobalOf(out) = GlobalOf(saved[1])

\* the array returned by the running call is balanced: a split array has the
\* canonical share on every rank, a replicated one a full copy on every rank
ReturnedBalanced ==
    \A q \in Ranks :
        Len(out[q]) = IF split = NoSplit
                      THEN Len(GlobalOf(out))
                      ELSE CanonicalShare(Len(GlobalOf(out)), P, q)

C5_OrderZeroReturnsInput ==
    order = 0 =>
        /\ NoMessages
        /\ arg = orig
        /\ \A q \in Ranks : pc[q] \in {"entry", "done"}
        /\ \A q \in Ranks : pc[q] = "done" => outIsArg[q] /\ out[q] = orig[q]

\* C5 witness: every rank of a distributed array has returned from diff(a, 0)
C5_Witness ==
    /\ order = 0 /\ IsDistributed /\ AllReturned
    /\ Len(GlobalOf(orig)) >= 2

\* C6: diff(a, n) with n < 0 raises ValueError on every rank at once: no rank
\* copies, sends or receives, and a is left as it was.
C6_NegativeOrderRaises ==
    order < 0 =>
        /\ NoMessages
        /\ arg = orig
        /\ \A q \in Ranks : pc[q] \in {"entry", "raised"}
        /\ \A q \in Ranks : pc[q] = "raised" => err[q] = "ValueError"
        /\ \A q \in Ranks : pc[q] = "entry" => ENABLED RaiseNegative(q)

\* C6 witness: every rank of a distributed array has raised on a negative order
C6_Witness ==
    /\ order < 0 /\ IsDistributed
    /\ \A q \in Ranks : pc[q] = "raised" /\ err[q] = "ValueError"

\* -------------------------------------------------------- convolve: claims
RECURSIVE RefFullSum(_, _, _, _)
\* a[1]*v[n] + a[2]*v[n-1] + ... + a[i]*v[n-i+1], the terms v has an index for
RefFullSum(a, v, n, i) ==
    IF i = 0 THEN 0
    ELSE RefFullSum(a, v, n, i - 1)
         + (IF n - i + 1 >= 1 /\ n - i + 1 <= Len(v) THEN a[i] * v[n - i + 1] ELSE 0)

\* the single-process discrete linear convolution of a and v in the mode m:
\* every point of overlap ("full"), the len(a) central points ("same"), the
\* points of complete overlap ("valid")
RefConv(a, v, m) ==
    CASE m = "full"  -> [n \in 1 .. Len(a) + Len(v) - 1 |->
                            RefFullSum(a, v, n, Len(a))]
      [] m = "same"  -> [n \in 1 .. Len(a) |->
                            RefFullSum(a, v, n + ((Len(v) - 1) \div 2), Len(a))]
      [] m = "valid" -> [n \in 1 .. Len(a) - Len(v) + 1 |->
                            RefFullSum(a, v, n + Len(v) - 1, Len(a))]

AllConvDone == \A q \in CRanks : cpc[q] = "done"

NoConvRaised == \A q \in CRanks : cerr[q] = "none"

\* the returned global array: one copy when replicated, else the local
\* buffers in rank order
GlobalRes == IF aSplit = NoSplit THEN cres[0] ELSE Gather(cres, cP)

\* a call the documentation accepts: a supported mode, a filter shorter than
\* the signal, an odd filter in mode "same", and no local chunk of the padded
\* signal shorter than the filter
AcceptedCall ==
    /\ mode \in {"full", "same", "valid"}
    /\ SigLen > FilLen
    /\ mode = "same" => FilLen % 2 = 1
    /\ ~(ADistributed /\ ChunkError)

\* C7: for a replicated filter and a signal split over any number of workers,
\* convolve returns, in every accepted mode and for odd and even filters, the
\* single-process convolution of the global data.
C7_ConvolveEqualsSingleProcess ==
    (vSplit = NoSplit /\ aSplit = 0 /\ AcceptedCall) =>
        /\ NoConvRaised
        /\ AllConvDone => GlobalRes = RefConv(GlobalA, GlobalV, mode)

\* C8: for a split signal of length N and a replicated filter of length M < N
\* the local results in rank order have the total length N+M-1 in mode
\* "full", N in mode "same" and N-M+1 in mode "valid".
C8_ResultLength ==
    (vSplit = NoSplit /\ aSplit = 0 /\ AcceptedCall) =>
        /\ NoConvRaised
        /\ AllConvDone =>
              Len(Gather(cres, cP)) =
                  CASE mode = "full"  -> SigLen + FilLen - 1
                    [] mode = "same"  -> SigLen
                    [] mode = "valid" -> SigLen - FilLen + 1

\* C9: convolve in mode "same" with an odd, non-distributed filter raises
\* nothing and returns an array of the signal's global length.
C9_SameModeSucceeds ==
    (mode = "same" /\ ~VDistributed /\ AcceptedCall) =>
        /\ NoConvRaised
        /\ AllConvDone => Len(GlobalRes) = SigLen

\* C10: with a distributed filter, the modes "full" and "same" raise the
\* TypeError of the distribution policy on every rank, before anything else
\* is done, and the mode "valid" never raises it.
C10_DistributedFilterPolicy ==
    \A q \in CRanks :
        /\ (VDistributed /\ mode \in {"full", "same"}) =>
              /\ cpc[q] \in {"check", "raised"}
              /\ cpc[q] = "raised" => cerr[q] = "TypeError"
        /\ (VDistributed /\ mode = "valid") => cerr[q] # "TypeError"

\* C10 witness: every rank has raised the TypeError for a distributed filter
\* in mode "full", the filter shorter than the signal
C10_Witness ==
    /\ VDistributed /\ mode = "full" /\ SigLen > FilLen
    /\ \A q \in CRanks : cpc[q] = "raised" /\ cerr[q] = "TypeError"

\* the errors of the checks of lines 80-109
CheckErrors ==
    {"TypeError", "ValueError:size", "ValueError:even", "ValueError:mode",
     "ValueError:chunk"}

\* C11: the errors of the checks of convolve are symmetric: once one rank has
\* raised one of them, no rank is or gets past the checks, every rank that has
\* raised has raised the same error, and no rank has padded, fetched a halo or
\* sent a filter chunk.
C11_ErrorsSymmetric ==
    \A q \in CRanks : cerr[q] \in CheckErrors =>
        \A r \in CRanks :
            /\ cpc[r] \in {"check", "raised"}
            /\ cpc[r] = "raised" => cerr[r] = cerr[q]
            /\ signal[r] = << >> /\ ~fsent[r] /\ rows[r] = << >>

\* C11 witness: all of two or more ranks have raised the chunk error, the last
\* of the checks
C11_Witness ==
    /\ cP >= 2
    /\ \A q \in CRanks : cpc[q] = "raised" /\ cerr[q] = "ValueError:chunk"

\* C12: in mode "valid", for a split signal and a split filter whose chunks
\* pass the checks of convolve, no rank raises, and the result gathered in
\* rank order is the single-process valid convolution of the global signal
\* and the global filter, of global length N-M+1, whatever the worker count
\* and the sizes of the filter chunks.
C12_DistributedFilterValid ==
    (FilterPath /\ mode = "valid" /\ AcceptedCall /\ ~HaloError) =>
        /\ NoConvRaised
        /\ AllConvDone =>
              /\ GlobalRes = RefConv(GlobalA, GlobalV, "valid")
              /\ Len(GlobalRes) = SigLen - FilLen + 1

\* the padded signal as one global array, and the global index before the
\* first element of rank r
GlobalPadded == Gather([q \in CRanks |-> Padded(q)], cP)

PaddedOffset(r) == SumTo([q \in CRanks |-> Len(Padded(q))], r)

\* rank r has completed the wait of its halo exchange
HaloDone(r) == hposted[r] /\ cpc[r] # "halowait"

\* C13: the halo exchange never blocks and reads exactly k elements past each
\* inner boundary: a rank waiting on its halo requests has every neighbour
\* either already issuing the matching requests or still on its way to issue
\* them without raising, and after the wait the array-with-halo of rank r is
\* the stretch of the global padded signal from k elements before its chunk
\* (none on rank 0) to k elements after it (none on the last rank).
C13_HaloExchangeCompletes ==
    \A r \in CRanks :
        /\ cpc[r] = "halowait" =>
              \A q \in Neighbours(r) :
                  \/ hposted[q]
                  \/ cpc[q] \in {"check", "halo"} /\ ConvError = "none" /\ ~HaloError
        /\ HaloDone(r) =>
              /\ cerr[r] \notin CheckErrors \cup {"ValueError:halo"}
              /\ signal[r] =
                    Slice(GlobalPadded,
                          (IF r > 0 THEN PaddedOffset(r) - HaloSize ELSE 0) + 1,
                          PaddedOffset(r) + Len(Padded(r))
                              + (IF r < cP - 1 THEN HaloSize ELSE 0))
              /\ Len(signal[r]) = Len(Padded(r)) + HaloSize * Cardinality(Neighbours(r))

\* C13 witness: three ranks have each completed a halo exchange of width 1 or
\* more and returned
C13_Witness ==
    /\ cP = 3 /\ HaloSize >= 1
    /\ \A q \in CRanks : HaloDone(q) /\ cpc[q] = "done"

\* C14: the halo width convolve requests is floor(M / 2), M the global length
\* of the filter, for replicated and for split filters.
C14_HaloWidthIsHalfFilter ==
    (\E q \in CRanks : hposted[q]) => HaloSize = FilLen \div 2

\* C15: for a replicated signal and a replicated filter on two or more ranks,
\* every rank returns the same full copy of the result, of length gshape, for
\* odd and for even filters.
C15_ReplicatedResultIdentical ==
    (cP > 1 /\ aSplit = NoSplit /\ vSplit = NoSplit /\ AllConvDone) =>
        \A q \in CRanks : cres[q] = cres[0] /\ Len(cres[q]) = GShape

\* C16 as stated: whenever the filter's global length is at least the
\* signal's, every rank raises ValueError, before padding and before any
\* message.
C16_SizeErrorIsValueError ==
    SigLen <= FilLen =>
        \A q \in CRanks :
            /\ cpc[q] \in {"check", "raised"}
            /\ cpc[q] = "raised" => cerr[q] = "ValueError:size"

\* C16 amended: whenever the filter's global length is at least the signal's,
\* every rank raises before padding and before any message: the TypeError of
\* the distribution-policy check when that check, which comes first, fires,
\* else the ValueError of the size check.
C16_SizeErrorAfterPolicy ==
    SigLen <= FilLen =>
        \A q \in CRanks :
            /\ cpc[q] \in {"check", "raised"}
            /\ cpc[q] = "raised" =>
                  cerr[q] = IF (VDistributed /\ mode = "full") \/ mode = "same"
                            THEN "TypeError" ELSE "ValueError:size"
            /\ signal[q] = << >> /\ ~hposted[q] /\ ~fsent[q]

\* C16 witness: every rank of two or more has raised the ValueError of the
\* size check
C16_Witness ==
    /\ cP >= 2 /\ SigLen <= FilLen
    /\ \A q \in CRanks : cpc[q] = "raised" /\ cerr[q] = "ValueError:size"

\* C17: mode "same" with an even, non-distributed filter shorter than the
\* signal raises the ValueError of the even-kernel check.
C17_SameEvenIsValueError ==
    (mode = "same" /\ FilLen % 2 = 0 /\ ~VDistributed /\ SigLen > FilLen) =>
        \A q \in CRanks :
            /\ cpc[q] \in {"check", "raised"}
            /\ cpc[q] = "raised" => cerr[q] = "ValueError:even"

\* C19: whenever convolve returns for a distributed signal, every rank holds
\* the canonical even-split share of the result.
C19_ResultBalanced ==
    (ADistributed /\ AllConvDone) =>
        \A q \in CRanks :
            Len(cres[q]) = CanonicalShare(Len(Gather(cres, cP)), cP, q)

\* ------------------------------------------------- balance_, sum, prod: claims
\* C18: after one invocation of balance_() rank r holds floor(G/P) elements,
\* one more when r < G mod P, in unchanged global order, and a second
\* invocation changes neither the partition sizes nor the contents.
C18_RebalanceCanonicalIdempotent ==
    LET all == Gather(binit, bP)
        g   == Len(all)
    IN  /\ bcalls >= 1 =>
              /\ \A r \in BRanks :
                    Len(bbuf[r]) = (g \div bP) + (IF r < g % bP THEN 1 ELSE 0)
              /\ Gather(bbuf, bP) = all
        /\ bcalls >= 2 => bbuf = bprev

\* C18 witness: balance_() was invoked twice on five elements that three
\* ranks held in a skewed partition
C18_Witness ==
    /\ bcalls = 2 /\ bP = 3
    /\ Len(binit[0]) = 0 /\ Len(binit[1]) = 1 /\ Len(binit[2]) = 4

RECURSIVE RefReduce(_, _)
\* the single-process reduction of the global array g: the sum or the product
\* of its elements, 0 or 1 for no element
RefReduce(op, g) ==
    IF Len(g) = 0 THEN (IF op = "sum" THEN 0 ELSE 1)
    ELSE IF op = "sum" THEN RefReduce(op, Slice(g, 1, Len(g) - 1)) + g[Len(g)]
    ELSE RefReduce(op, Slice(g, 1, Len(g) - 1)) * g[Len(g)]

\* the global array that is reduced
GlobalX == IF rsplit = NoSplit THEN rbuf[0] ELSE Gather(rbuf, rP)

\* C20: sum and prod raise nothing; a rank with an empty partition contributes
\* 0 to sum and 1 to prod; and the value every rank returns is the
\* single-process sum or product of the global data.
C20_ReduceWithNeutral ==
    \A r \in RRanks :
        /\ rpc[r] \in {"entry", "local", "done"}
        /\ (rpc[r] # "entry" /\ Len(rbuf[r]) = 0) =>
              rpart[r] = (IF rop = "sum" THEN 0 ELSE 1)
        /\ rpc[r] = "done" => rres[r] = RefReduce(rop, GlobalX)

\* C20 witness: prod has returned a product other than 0 and 1 on three ranks,
\* one of which holds no element
C20_Witness ==
    /\ rop = "prod" /\ rP = 3 /\ rsplit = 0
    /\ Len(rbuf[1]) = 0 /\ Len(rbuf[0]) > 0 /\ Len(rbuf[2]) > 0
    /\ \A q \in RRanks : rpc[q] = "done" /\ rres[q] = 4

\* ------------------------------------------------ bitwise operations: claims
\* C21: bitwise_and, bitwise_or, bitwise_xor, left_shift, right_shift and
\* invert with an operand of a floating element type raise TypeError on every
\* rank, and no rank enters the operation engine.
C21_FloatOperandRaises ==
    (\E i \in 1 .. Len(tdt) : tdt[i] = "float") =>
        \A q \in TRanks :
            /\ tpc[q] \in {"entry", "raised"}
            /\ tpc[q] = "raised" => terr[q] = "TypeError"
            /\ tpc[q] = "entry" => ENABLED BitwiseRaise(q)

\* C21 witness: every rank has raised TypeError for a shift whose second
\* operand alone is floating
C21_Witness ==
    /\ tP >= 2 /\ top = "left_shift" /\ tdt = <<"int", "float">>
    /\ \A q \in TRanks : tpc[q] = "raised" /\ terr[q] = "TypeError"

\* ----------------------------------------------------- cumsum, diff: claims
\* the call diff(cumsum(a, 0)) has returned on every rank
RoundTripReturned == call = 1 /\ AllReturned

FilterExchangePending ==
    /\ FilterPath
    /\ NoConvRaised
    /\ \E q \in CRanks : cpc[q] \in {"conv", "recv"}

\* C23: in the exchange of the filter chunks no rank blocks forever: while a
\* rank is in the send loop or the receive loop and no rank has raised, some
\* rank can take a step.
C23_FilterExchangeCompletes ==
    FilterExchangePending =>
        \E q \in CRanks : ENABLED FilterSendAll(q) \/ ENABLED ConvRows(q)

\* --------------------------------------------------- diff, messages: claims
\* rank r is in, or has left, the work loop of a distributed diff
InWorkLoop(r) == pc[r] \in {"send", "sndwait", "recwait", "trim", "done"}

\* rank r has issued the send of its current pass
SentThisPass(r) == pc[r] \in {"sndwait", "recwait"}

\* the counts of a distributed diff(a, n), n >= 1: a rank r > 0 has sent one
\* message per pass it has started, each with tag r; a rank r < P-1 has
\* received one message per pass it has completed; the messages in flight
\* from r+1 to r are those of the passes r has not yet completed, in order;
\* and when every rank has returned, nothing is in flight or pending
MessagesMatched ==
    (IsDistributed /\ order >= 1) =>
        /\ \A r \in Ranks : InWorkLoop(r) =>
              /\ sent[r] = IF r > 0
                           THEN pass[r] + (IF SentThisPass(r) THEN 1 ELSE 0)
                           ELSE 0
              /\ recvd[r] = IF r < P - 1 THEN pass[r] ELSE 0
              /\ posted[r] = recvd[r] + (IF pc[r] = "recwait" THEN 1 ELSE 0)
        /\ chan[0] = << >>
        /\ \A r \in Ranks \ {0} :
              /\ Len(chan[r]) = sent[r] - recvd[r - 1]
              /\ \A i \in 1 .. Len(chan[r]) :
                    /\ chan[r][i].tag = r
                    /\ chan[r][i].pass = recvd[r - 1] + i - 1
              /\ (pc[r - 1] = "recwait" /\ Len(chan[r]) > 0) =>
                    /\ Head(chan[r]).pass = pass[r - 1]
                    /\ ENABLED RecWait(r - 1)
        /\ AllReturned =>
              \A r \in Ranks :
                  /\ chan[r] = << >>
                  /\ posted[r] = recvd[r]
                  /\ r > 0 => sent[r] = order
                  /\ r < P - 1 => recvd[r] = order

\* C24: in a distributed diff sends and receives are matched one to one: the
\* counts and the order of the messages agree pass by pass, every message
\* sent by a rank r > 0 has a receiver (rank r-1 has not stopped), and every
\* receive posted by a rank r < P-1 has a sender (rank r+1 has not stopped).
C24_SendsMatchReceives ==
    /\ MessagesMatched
    /\ \A r \in Ranks \ {0} : Len(chan[r]) > 0 => pc[r - 1] # "raised"
    /\ \A r \in Ranks \ {P - 1} : pc[r] = "recwait" => pc[r + 1] # "raised"

\* the global index of the first element of rank r's chunk of the argument
FirstIndex(r) == SumTo([q \in Ranks |-> Len(arg[q])], r) + 1

\* every message in flight from rank r carries the first element rank r held
\* at the start of the pass it was sent in: the k-th difference at the global
\* index of that element, wherever that difference exists
CarriesFirstElement(r) ==
    \A i \in 1 .. Len(chan[r]) :
        LET k == chan[r][i].pass
        IN  FirstIndex(r) + k <= Len(GlobalOf(arg)) =>
                chan[r][i].val = RefDiffAt(GlobalOf(arg), k, FirstIndex(r))

\* a send of rank r puts in flight the first element of ret as it is before
\* the step, which is the step that overwrites it with the local difference
SendsCloneOfFirst(r) ==
    Len(chan'[r]) > Len(chan[r]) =>
        /\ chan'[r][Len(chan'[r])].val = ret[r][1]
        /\ ret'[r] = LocalDiff(ret[r])

\* C25: within one pass the Reconcile of rank r depends only on rank r+1: the
\* value it receives is the first element rank r+1 held at the start of that
\* pass, taken before the local diff of rank r+1 overwrote it, and rank r,
\* waiting for it, can complete the pass as soon as rank r+1 has issued the
\* send of that pass, whatever the other ranks have done.
C25_ReconcileDependsOnNext ==
    /\ [](IsDistributed /\ order >= 1 =>
            \A r \in Ranks \ {0} :
                /\ CarriesFirstElement(r)
                /\ (pc[r - 1] = "recwait" /\ sent[r] > pass[r - 1]) =>
                      /\ ENABLED RecWait(r - 1)
                      /\ Head(chan[r]).pass = pass[r - 1])
    /\ [][\A r \in Ranks \ {0} : SendsCloneOfFirst(r)]_vars

\* C25 witness: of three ranks, rank 0 waits in the second pass for the
\* message rank 1 has sent, a nonzero value, while rank 2 has not yet begun
\* its second pass
C25_Witness ==
    /\ P = 3 /\ split = 0 /\ order = 2
    /\ pc[0] = "recwait" /\ pass[0] = 1
    /\ Len(chan[1]) = 1 /\ chan[1][1].pass = 1 /\ chan[1][1].val # 0
    /\ pass[2] = 0

\* ----------------------------------------------------- diff, passes: claims
\* rank r is inside an iteration of the work loop
InPass(r) == pc[r] \in {"send", "sndwait", "recwait"}

\* C26 as stated: a rank starts pass i+1 only after the trim and the
\* rebalance of pass i, so in pass i+1 the array is i elements shorter.
C26_TrimBetweenPasses ==
    (IsDistributed /\ order >= 1) =>
        \A r \in Ranks : (InPass(r) /\ pass[r] >= 1) =>
            Len(Gather(ret, P)) = Len(GlobalOf(arg)) - pass[r]

\* C26 amended: on each rank the n passes are strictly sequential: a rank in
\* pass i+1 has completed its own send wait and its own receive of every
\* pass up to i; the local extent does not change inside the work loop; the
\* trim of n elements and the rebalance happen once, after every rank has
\* completed all n passes.
C26_PassesSequentialOneTrim ==
    (IsDistributed /\ order >= 1) =>
        \A r \in Ranks :
            /\ InPass(r) =>
                  /\ pass[r] < order
                  /\ Len(ret[r]) = Len(arg[r])
                  /\ r > 0 => sent[r] >= pass[r]
                  /\ (r > 0 /\ sync) => posted[r - 1] >= pass[r]
                  /\ r < P - 1 => recvd[r] = pass[r]
            /\ pc[r] = "trim" => pass[r] = order /\ Len(ret[r]) = Len(arg[r])
            /\ pc[r] = "done" =>
                  /\ \A q \in Ranks : pass[q] = order /\ pc[q] = "done"
                  /\ Len(Gather(ret, P)) = Max(Len(GlobalOf(arg)) - order, 0)

\* C26 witness: rank 1 is in its second pass with its local extent unchanged
\* while rank 2 is still in its first
C26_Witness ==
    /\ P = 3 /\ split = 0 /\ order = 2
    /\ pc[1] = "sndwait" /\ pass[1] = 1 /\ Len(ret[1]) = 2 /\ Len(arg[1]) = 2
    /\ InPass(2) /\ pass[2] = 0

\* ------------------------------------------------------ diff, input: claims
\* C27: diff(a, n) with n >= 1 never modifies its input: in every step of a
\* call the local buffers of a (and with them its partition sizes and its
\* global shape) and its split stay as they are, and in the first call they
\* are those of the array the caller passed, on the distributed and on the
\* non-distributed path.
C27_InputNotModified ==
    /\ []((call = 1 /\ order >= 1) => arg = orig)
    /\ [][(order >= 1 /\ call' = call) => (arg' = arg /\ split' = split)]_vars

\* C27 witness: both ranks of a distributed diff have written their results
\* into ret, which differs from the input on each of them, and the input is
\* as it was passed
C27_Witness ==
    /\ call = 1 /\ order >= 1 /\ P = 2 /\ split = 0
    /\ pc[0] = "trim" /\ pc[1] = "trim"
    /\ ret[0] # arg[0] /\ ret[1] # arg[1]
    /\ arg = orig

\* -------------------------------------------- convolve, halo width: claims
\* a call with a distributed signal that has passed every check before
\* a.get_halo(halo_size)
ReachesHaloExchange == ADistributed /\ ConvError = "none"

\* C28 as stated: whenever convolve reaches the halo exchange, the halo width
\* is at most the local extent of the padded signal on every rank.
C28_HaloFitsEveryChunk ==
    ReachesHaloExchange => \A q \in CRanks : HaloSize <= Len(Padded(q))

\* C28 amended: whenever convolve reaches the halo exchange, the halo width is
\* at most the local extent of the padded signal on rank 0, and on every rank
\* when the filter is replicated; when it exceeds the extent of some rank,
\* which a split filter allows, every rank that calls get_halo raises the
\* ValueError and none starts the exchange.
C28_HaloFitsOrAllRaise ==
    ReachesHaloExchange =>
        /\ HaloSize <= Len(Padded(0))
        /\ ~VDistributed => \A q \in CRanks : HaloSize <= Len(Padded(q))
        /\ (\E q \in CRanks : HaloSize > Len(Padded(q))) =>
              \A q \in CRanks :
                  /\ ~hposted[q]
                  /\ cpc[q] \in {"check", "halo", "raised"}
                  /\ cpc[q] = "raised" => cerr[q] = "ValueError:halo"
                  /\ cpc[q] = "halo" => ENABLED GetHalo(q)

\* C28 witness: with a split filter the halo is wider than the empty chunk of
\* the last rank, and both ranks have raised the ValueError of get_halo
C28_Witness ==
    /\ ReachesHaloExchange /\ VDistributed /\ cP = 2
    /\ Len(Padded(0)) >= 2 /\ HaloSize = 1 /\ Len(Padded(1)) = 0
    /\ \A q \in CRanks : cpc[q] = "raised" /\ cerr[q] = "ValueError:halo"

\* ------------------------------------------------- diff, input type: claims
\* C29 as stated: for an input that is not a DNDarray, diff raises TypeError
\* whatever n is: no rank returns and no rank raises another exception.
C29_NotDNDarrayAlwaysTypeError ==
    ~isDND =>
        \A q \in Ranks :
            /\ pc[q] \in {"entry", "raised"}
            /\ pc[q] = "raised" => err[q] = "TypeError"

\* C29 amended: for an input that is not a DNDarray, diff raises TypeError
\* when n >= 1, returns the input itself when n = 0, and raises ValueError
\* when n < 0.
C29_NotDNDarrayByOrder ==
    ~isDND =>
        \A q \in Ranks :
            /\ order >= 1 =>
                  /\ pc[q] \in {"entry", "raised"}
                  /\ pc[q] = "raised" => err[q] = "TypeError"
                  /\ pc[q] = "entry" => ENABLED RaiseNotDNDarray(q)
            /\ order = 0 =>
                  /\ pc[q] \in {"entry", "done"}
                  /\ pc[q] = "done" => outIsArg[q] /\ out[q] = arg[q]
                  /\ pc[q] = "entry" => ENABLED ReturnInput(q)
            /\ order < 0 =>
                  /\ pc[q] \in {"entry", "raised"}
                  /\ pc[q] = "raised" => err[q] = "ValueError"
                  /\ pc[q] = "entry" => ENABLED RaiseNegative(q)

\* C29 witness: diff(x, 1) of an object that is not a DNDarray has raised
\* TypeError on both ranks
C29_Witness ==
    /\ ~isDND /\ order = 1 /\ P = 2
    /\ \A q \in Ranks : pc[q] = "raised" /\ err[q] = "TypeError"

====
